---- MODULE Spec2Model ----
(***************************************************************************)
(* ossimShorelineUtil (src/src/util/ossimShorelineUtil.cpp): the shoreline *)
(* utility object, its configuration load, the construction of its         *)
(* processing chain, the threshold lookup table, getChip and execute.      *)
(*                                                                         *)
(* The threshold, the tolerance and the smoothing sigma are decimal texts  *)
(* of up to nine decimals, counted in steps of 1e-9 (1.0 is One steps).    *)
(* The break points of the lookup table are worked out as the code does:   *)
(* in IEEE-754 double arithmetic (Double, DPlus, DMinus, with FLT_EPSILON  *)
(* = 2^-23 exactly) and printed to 8 significant digits (ToString). The    *)
(* "in" values of the table and the index values are exact decimal         *)
(* numbers (Dec).                                                          *)
(***************************************************************************)
EXTENDS Integers, Sequences, FiniteSets

(* ------------------------------ bounds --------------------------------- *)

\* how many of the tolerance texts are drawn for the lookup-table
\* specification
MaxTol == 11

\* largest distance (steps of 1e-9) of an index value drawn for the
\* lookup-table specification from an "in" value of the table
MaxOffset == 16

\* most input image layers the base class loads
MaxLayers == 5

\* most initialize calls on one object
MaxInits == 2

\* most getChip calls of one caller
MaxCalls == 1

(* ----------------------------- constants ------------------------------- *)

\* the number 1.0 in steps: thresholds, tolerances and the smoothing sigma
\* are counted in steps of 1e-9, a member holding n steps holds the double
\* nearest to n * 1e-9
One == 1000000000

NDWI == "NDWI"
AWEI == "AWEI"

COLOR_CODING_KW == "color_coding"
SMOOTHING_KW == "smoothing"
THRESHOLD_KW == "threshold"
TOLERANCE_KW == "tolerance"
ALGORITHM_KW == "algorithm"
DO_EDGE_DETECT_KW == "do_edge_detect"
SENSOR_ID_KW == "sensor_id"
OUTPUT_FILE_KW == "output_file"
DUMMY_OUTPUT_FILENAME == "@@NEVER_USE_THIS@@"
TEMP_RASTER_PRODUCT_FILENAME == "temp_shoreline.tif"

Keys ==
  {ALGORITHM_KW, COLOR_CODING_KW, SENSOR_ID_KW, DO_EDGE_DETECT_KW,
   SMOOTHING_KW, THRESHOLD_KW, TOLERANCE_KW, OUTPUT_FILE_KW}

(* --------------------- strings, numbers, file names -------------------- *)

\* the decimal texts of the keyword lists and the steps they denote
Numerals ==
  << <<"0", 0>>, <<"0.25", One \div 4>>, <<"0.5", One \div 2>>, <<"1", One>>,
     <<"1.5", One + One \div 2>>, <<"-0.25", 0 - (One \div 4)>>,
     <<"0.000000001", 1>>, <<"0.000000004", 4>>, <<"0.000000005", 5>>,
     <<"0.000000006", 6>>, <<"0.00000001", 10>>, <<"0.00000006", 60>>,
     <<"0.00000007", 70>>, <<"0.00000012", 120>>, <<"0.0000002", 200>>,
     <<"0.01", One \div 100>>, <<"0.55", 55 * (One \div 100)>>,
     <<"0.99", 99 * (One \div 100)>>, <<"0.999999995", One - 5>> >>

\* ossimString::toDouble: the number a keyword value reads as, in steps;
\* text that is no number reads as 0
ToDouble(s) ==
  IF \E i \in 1..Len(Numerals) : Numerals[i][1] = s
  THEN Numerals[CHOOSE i \in 1..Len(Numerals) : Numerals[i][1] = s][2]
  ELSE 0

\* ossimString::split(" "): the blank-separated tokens of a color coding
Split(s) ==
  CASE s = "60 120 0"  -> <<"60", "120", "0">>
    [] s = "300 120 0" -> <<"300", "120", "0">>
    [] s = "255 128 0" -> <<"255", "128", "0">>
    [] s = "255 127 0" -> <<"255", "127", "0">>
    [] s = "120 60 0"  -> <<"120", "60", "0">>
    [] s = "0 60 120"  -> <<"0", "60", "120">>
    [] s = "120 0 0"   -> <<"120", "0", "0">>
    [] s = "120 120 0" -> <<"120", "120", "0">>
    [] s = "60 0 60"   -> <<"60", "0", "60">>
    [] s = "60 60 60"  -> <<"60", "60", "60">>
    [] s = "1 2"       -> <<"1", "2">>
    [] s = ""          -> <<>>
    [] OTHER           -> <<s>>

\* the integer a token reads as
ToInt(s) ==
  CASE s = "0"   -> 0
    [] s = "1"   -> 1
    [] s = "2"   -> 2
    [] s = "60"  -> 60
    [] s = "120" -> 120
    [] s = "127" -> 127
    [] s = "128" -> 128
    [] s = "255" -> 255
    [] s = "300" -> 300
    [] OTHER     -> 0

\* ossimString::toUInt8: the token's integer kept in 8 bits
ToUInt8(s) == ToInt(s) % 256

\* ossimString::toBool
ToBool(s) == s \in {"true", "yes", "y", "1"}

\* ossimFilename::appendTimestamp on the temporary raster product name
AppendTimestamp(f) ==
  IF f = TEMP_RASTER_PRODUCT_FILENAME THEN "temp_shoreline_TIMESTAMP.tif" ELSE f

\* ossimFilename::setExtension("tif")
SetExtensionTif(f) ==
  CASE f = "shore.json"          -> "shore.tif"
    [] f = ""                    -> ".tif"
    [] f = DUMMY_OUTPUT_FILENAME -> "@@NEVER_USE_THIS@@.tif"
    [] OTHER                     -> f

(* ------------------- whole numbers wider than an int ------------------- *)

\* the element of a one-element set; Value({e(v) : v \in {d}}) is e at
\* the value of d, with d worked out once
Value(S) == CHOOSE y \in S : TRUE

\* a wide whole number is Limbs digits of Base, lowest digit first
Base == 10000
Limbs == 14

\* the digits F(1), ..., F(Limbs)
Digits(F(_)) ==
  <<F(1), F(2), F(3), F(4), F(5), F(6), F(7),
    F(8), F(9), F(10), F(11), F(12), F(13), F(14)>>

\* F(1) + ... + F(Limbs)
Sum(F(_)) ==
  (((F(1) + F(2)) + (F(3) + F(4))) + ((F(5) + F(6)) + (F(7) + F(8))))
  + (((F(9) + F(10)) + (F(11) + F(12))) + (F(13) + F(14)))

Big(n) ==
  <<n % Base, (n \div Base) % Base, n \div (Base * Base),
    0, 0, 0, 0, 0, 0, 0, 0, 0, 0, 0>>

BigZero == Big(0)

\* every digit keeps its part below Base and takes the rest of the digit
\* below
Spill(l) ==
  Value({Digits(LAMBDA i :
           (v[i] % Base) + (IF i = 1 THEN 0 ELSE v[i - 1] \div Base)) :
         v \in {l}})

\* the wide number with the digit values l[i]: a digit takes a carry when
\* a digit below overflows and the digits between are full
Carry(l) ==
  Value({Digits(LAMBDA i :
           (s[i] + (IF \E j \in 1..(i - 1) :
                         /\ s[j] >= Base
                         /\ \A k \in (j + 1)..(i - 1) : s[k] = Base - 1
                    THEN 1 ELSE 0)) % Base) :
         s \in {Spill(Spill(l))}})

\* x * m for a small m
BigTimes(x, m) ==
  Value({Carry(Digits(LAMBDA i : v[i] * n)) : v \in {x}, n \in {m}})

\* x * y
BigMul(x, y) ==
  Value({Carry(Digits(LAMBDA k :
                 Sum(LAMBDA i : IF i <= k THEN v[i] * w[k + 1 - i] ELSE 0))) :
         v \in {x}, w \in {y}})

BigPlus(x, y) ==
  Value({Carry(Digits(LAMBDA i : v[i] + w[i])) : v \in {x}, w \in {y}})

\* x - y for x >= y: a digit borrows when a digit below falls short and
\* the digits between are level
BigMinus(x, y) ==
  Value({Digits(LAMBDA i :
           (d[i] - (IF \E j \in 1..(i - 1) :
                         d[j] < 0 /\ \A k \in (j + 1)..(i - 1) : d[k] = 0
                    THEN 1 ELSE 0)) % Base) :
         d \in {Value({Digits(LAMBDA i : v[i] - w[i]) :
                       v \in {x}, w \in {y}})}})

BigLess(x, y) ==
  Value({\E i \in 1..Limbs :
           v[i] < w[i] /\ \A k \in (i + 1)..Limbs : v[k] = w[k] :
         v \in {x}, w \in {y}})

BigOdd(x) == x[1] % 2 = 1

\* x without its k lowest digits, and whether one of these is not 0
ShiftDown(x, k) ==
  Value({<<Digits(LAMBDA i : IF i + k <= Limbs THEN v[i + k] ELSE 0),
           \E i \in 1..k : v[i] # 0>> :
         v \in {x}})

\* x * Base^k
ShiftUp(x, k) ==
  Value({Digits(LAMBDA i : IF i > k THEN v[i - k] ELSE 0) : v \in {x}})

\* Base^e mod m for e in 0..Limbs
PowMod(e, m) ==
  LET b1 == Base % m
      b2 == (b1 * b1) % m
      b4 == (b2 * b2) % m
      b8 == (b4 * b4) % m
      e1 == IF e % 2 = 1 THEN b1 ELSE 1
      e2 == IF (e \div 2) % 2 = 1 THEN b2 ELSE 1
      e4 == IF (e \div 4) % 2 = 1 THEN b4 ELSE 1
      e8 == IF e \div 8 = 1 THEN b8 ELSE 1
  IN  ((((((e1 * e2) % m) * e4) % m) * e8) % m)

\* <<x div m, x mod m>> for a small m: the digits above digit i leave the
\* remainder above[i], which digit i takes in
BigOver(x, m) ==
  Value({Value({
    <<Digits(LAMBDA i : (above[i] * Base + v[i]) \div n),
      (above[1] * Base + v[1]) % n>> :
    above \in {Value({
      Digits(LAMBDA i :
        Sum(LAMBDA j : IF j > i THEN v[j] * w[j - i] ELSE 0) % n) :
      w \in {Digits(LAMBDA e : PowMod(e - 1, n))}})}}) :
    v \in {x}, n \in {m}})

RECURSIVE OverAll(_, _, _, _)
\* <<x div the product of ms[i], ms[i+1], ..., whether a remainder was
\* dropped>>
OverAll(x, ms, i, dropped) ==
  IF i > Len(ms) THEN <<x, dropped>>
  ELSE Value({OverAll(r[1], ms, i + 1, dropped \/ r[2] # 0) :
              r \in {BigOver(x, ms[i])}})

\* q rounded to a multiple of m, ties to even; above is whether q stands
\* for a number slightly above q
RoundTo(q, m, above) ==
  Value({BigTimes(IF \/ 2 * r[2] > n
                     \/ 2 * r[2] = n /\ (above \/ BigOdd(r[1]))
                  THEN BigPlus(r[1], Big(1)) ELSE r[1], n) :
         n \in {m}, r \in {BigOver(q, m)}})

(* ------------------------ IEEE-754 binary64 ---------------------------- *)

\* A double is a sign and a magnitude, the magnitude a wide whole number of
\* units of 2^-82; every double between 2^-30 and 2 in size is a whole
\* number of such units.

\* 2^53, 2^75, 5^25
P53 == <<992, 5474, 1992, 9007, 0, 0, 0, 0, 0, 0, 0, 0, 0, 0>>
TwoTo75 == <<9568, 6170, 9571, 1862, 7893, 377, 0, 0, 0, 0, 0, 0, 0, 0>>
FiveTo25 == <<3125, 7695, 2238, 8023, 29, 0, 0, 0, 0, 0, 0, 0, 0, 0>>

Pow2 ==
  <<2, 4, 8, 16, 32, 64, 128, 256, 512, 1024, 2048, 4096, 8192, 16384>>

\* 2^0, 2^14, 2^28
Chunk == <<1, 16384, 268435456>>

\* q (plus a fraction when sticky) rounded to 53 significant bits, ties to
\* even, for q below 2^95: q sheds c chunks of 14 bits and then k bits
Round53(q, sticky) ==
  Value({
    IF BigLess(v, P53) THEN v
    ELSE Value({Value({Value({
      BigMul(RoundTo(u[1], Pow2[k], sticky \/ u[2]), Big(Chunk[c + 1])) :
        k \in {CHOOSE k \in 1..14 :
                 /\ BigLess(u[1], BigTimes(P53, Pow2[k]))
                 /\ \A j \in 1..(k - 1) :
                      ~BigLess(u[1], BigTimes(P53, Pow2[j]))}}) :
        u \in {OverAll(v, [i \in 1..c |-> 16384], 1, FALSE)}}) :
        c \in {CHOOSE c \in 0..2 :
                 /\ BigLess(v, BigTimes(BigMul(P53, Big(Chunk[c + 1])), 16384))
                 /\ \A b \in 0..(c - 1) :
                      ~BigLess(v, BigTimes(BigMul(P53, Big(Chunk[b + 1])),
                                           16384))}})
    : v \in {q}})

Abs(n) == IF n < 0 THEN 0 - n ELSE n

\* strtod: the double nearest to n steps of 1e-9, that is n * 2^84 / 10^9
\* = n * 2^75 / 5^9 rounded, in quarters of the unit
Double(n) ==
  IF n = 0 THEN [neg |-> FALSE, mag |-> BigZero]
  ELSE Value({[neg |-> n < 0,
               mag |-> BigOver(Round53(q[1], q[2]), 4)[1]] :
              q \in {OverAll(BigMul(Big(Abs(n)), TwoTo75),
                             <<3125, 625>>, 1, FALSE)}})

DMinusOf(x) == [neg |-> x.mag # BigZero /\ ~x.neg, mag |-> x.mag]

\* x + y in double arithmetic
DPlus(x, y) ==
  Value({[neg |-> m # BigZero /\ (IF BigLess(v.mag, w.mag)
                                  THEN w.neg ELSE v.neg),
          mag |-> m] :
         v \in {x}, w \in {y},
         m \in {Round53(IF x.neg = y.neg THEN BigPlus(x.mag, y.mag)
                        ELSE IF BigLess(x.mag, y.mag)
                        THEN BigMinus(y.mag, x.mag)
                        ELSE BigMinus(x.mag, y.mag), FALSE)}})

\* x - y in double arithmetic
DMinus(x, y) == DPlus(x, DMinusOf(y))

\* FLT_EPSILON = 2^-23
FLT_EPSILON ==
  [neg |-> FALSE,
   mag |-> <<3488, 342, 7523, 6460, 57, 0, 0, 0, 0, 0, 0, 0, 0, 0>>]

(* --------------------------- decimal numbers --------------------------- *)

\* A decimal number is <<a, b, c>>: a steps of 1e-9 plus b steps of 1e-17
\* plus c steps of 1e-25, with 0 <= b, c < E8.
E8 == 100000000

Dec(n) == <<n, 0, 0>>

DecPlus(x, y) ==
  Value({Value({<<v[1] + w[1] + b \div E8, b % E8, (v[3] + w[3]) % E8>> :
                  b \in {v[2] + w[2] + (v[3] + w[3]) \div E8}}) :
           v \in {x}, w \in {y}})

DecMinus(x, y) ==
  Value({Value({<<v[1] - w[1] + b \div E8, b % E8, (v[3] - w[3]) % E8>> :
                  b \in {v[2] - w[2] + (v[3] - w[3]) \div E8}}) :
           v \in {x}, w \in {y}})

DecLess(x, y) ==
  Value({\/ v[1] < w[1]
         \/ v[1] = w[1] /\ v[2] < w[2]
         \/ v[1] = w[1] /\ v[2] = w[2] /\ v[3] < w[3] :
           v \in {x}, w \in {y}})

DecLeq(x, y) == ~DecLess(y, x)

\* half of x, steps of 1e-25 truncated
DecHalf(x) ==
  Value({Value({<<v[1] \div 2, b \div 2, (v[3] + E8 * (b % 2)) \div 2>> :
                  b \in {v[2] + E8 * (v[1] % 2)}}) :
           v \in {x}})

Pow10 == <<10, 100, 1000, 10000>>

\* q (plus a fraction when sticky) rounded to 8 significant digits, ties
\* to even: q sheds n whole digits of Base and then k decimal digits
Round8(q, sticky) ==
  Value({
    IF BigLess(v, Big(E8)) THEN v
    ELSE Value({Value({Value({
      ShiftUp(RoundTo(u[1], Pow10[k], sticky \/ u[2]), n) :
        k \in {CHOOSE k \in 1..4 :
                 /\ BigLess(u[1], ShiftUp(Big(Pow10[k]), 2))
                 /\ \A j \in 1..(k - 1) :
                      ~BigLess(u[1], ShiftUp(Big(Pow10[j]), 2))}}) :
        u \in {ShiftDown(v, n)}}) :
        n \in {CHOOSE n \in 0..(Limbs - 3) :
                 /\ \A i \in (n + 4)..Limbs : v[i] = 0
                 /\ \A b \in 0..(n - 1) : \E i \in (b + 4)..Limbs : v[i] # 0}})
    : v \in {q}})

\* ossimString::toString(double): the decimal number the printed text
\* denotes, that is the double rounded to 8 significant digits (for a
\* double of size 1e-17 or more, or zero); the double is a whole number of
\* steps of 1e-25 / 2^82 * 10^25 = 5^25 / 2^57
ToString(d) ==
  Value({Value({IF d.neg THEN DecMinus(Dec(0), text) ELSE text :
                text \in {<<m[5] + Base * m[6] + Base * Base * m[7],
                            m[3] + Base * m[4], m[1] + Base * m[2]>>}}) :
         m \in {Value({Round8(q[1], q[2]) :
                       q \in {OverAll(BigMul(d.mag, FiveTo25),
                                      <<16384, 16384, 16384, 16384, 2>>,
                                      1, FALSE)}})}})

\* double del = FLT_EPSILON
DEL == FLT_EPSILON

(* ------------------------------- state -------------------------------- *)

VARIABLES
  \* ossimShorelineUtil members
  m_waterValue, m_marginalValue, m_landValue, m_sensor, m_threshold,
  m_tolerance, m_algorithm, m_skipThreshold, m_smoothing, m_doEdgeDetect,
  m_vectorFilename,
  \* ossimChipProcUtil members the utility reads and writes
  m_kwl, m_productFilename, m_procChain, m_imgLayers, m_aoiViewRect,
  m_aoiGroundRect, m_geom,
  \* calls and their outcomes
  nInit,        \* initialize calls made so far
  initResult,   \* outcome of the last initialize call
  baseKwl,      \* keyword list handed to ossimChipProcUtil::initialize
  chainResult,  \* outcome of initProcessingChain since the last initialize
  pc,           \* per caller: position inside getChip
  part,         \* per caller: the integer of the object being copied next
  view,         \* per caller: the integers of m_aoiViewRect read so far
  bounding_irect, \* per caller: argument of getChip
  chipResult,   \* per caller: tile returned by getChip
  sb,           \* per caller: its stores that have not reached memory yet
  nCalls,       \* per caller: getChip calls made so far
  lutIn, lutOut, \* last index value remapped by the lookup table, its output
  execResult,   \* value returned by execute
  execEnv,      \* what execute met: base status, potrace availability, status
  warned,       \* a WARN notification was issued
  potraceKwl    \* keyword list handed to the potrace utility

cfgVars ==
  <<m_waterValue, m_marginalValue, m_landValue, m_sensor, m_threshold,
    m_tolerance, m_algorithm, m_skipThreshold, m_smoothing, m_doEdgeDetect>>
fileVars == <<m_vectorFilename, m_productFilename>>
chainVars == <<m_procChain, m_imgLayers, chainResult>>
aoiVars == <<m_aoiViewRect, m_aoiGroundRect, m_geom>>
initVars == <<m_kwl, nInit, initResult, baseKwl>>
chipVars == <<pc, part, view, bounding_irect, chipResult, sb, nCalls>>
lutVars == <<lutIn, lutOut>>
execVars == <<execResult, execEnv, warned, potraceKwl>>
vars ==
  <<cfgVars, fileVars, chainVars, aoiVars, initVars, chipVars, lutVars, execVars>>

\* callers of getChip
Callers == {1, 2}

\* an ossimIrect is <<ul_x, ul_y, lr_x, lr_y>>; NanRect is ossimIrect::makeNan
NanRect == <<-1, -1, -1, -1>>
Regions == {<<0, 0, 1, 1>>, <<2, 0, 3, 1>>, <<0, 0, 3, 3>>}
HasNans(r) == r = NanRect
RectSize(r) == IF HasNans(r) THEN <<0, 0>> ELSE <<r[3] - r[1] + 1, r[4] - r[2] + 1>>
\* ossimImageGeometry::localToWorld of a view rectangle
LocalToWorld(r) ==
  IF HasNans(r) THEN NanRect ELSE <<10 * r[1], 10 * r[2], 10 * r[3] + 9, 10 * r[4] + 9>>

EmptyKwl == [k \in Keys |-> ""]
NoKwl == [k \in Keys |-> "-"]
NoTile == [rect |-> NanRect]
NoPotraceKwl == [image_file |-> "-", output_file |-> "-", mode |-> "-"]
\* no index value remapped yet
NoIndex == Dec(0 - 1)
NoEnv == [base |-> "none", potrace |-> "none", vector |-> "none"]

\* the object after ossimShorelineUtil::ossimShorelineUtil()
Constructed ==
  /\ m_waterValue = 255
  /\ m_marginalValue = 128
  /\ m_landValue = 0
  /\ m_sensor = "ls8"
  /\ m_threshold = 55 * (One \div 100)
  /\ m_tolerance = One \div 100
  /\ m_algorithm = NDWI
  /\ m_skipThreshold = FALSE
  /\ m_smoothing = One \div 5
  /\ m_doEdgeDetect = FALSE
  /\ m_vectorFilename = ""
  /\ m_productFilename = ""
  /\ m_kwl = EmptyKwl

NoCalls ==
  /\ nInit = 0
  /\ initResult = "none"
  /\ baseKwl = NoKwl
  /\ chainResult = "none"
  /\ pc = [t \in Callers |-> "idle"]
  /\ part = [t \in Callers |-> 1]
  /\ view = [t \in Callers |-> NanRect]
  /\ bounding_irect = [t \in Callers |-> NanRect]
  /\ chipResult = [t \in Callers |-> NoTile]
  /\ sb = [t \in Callers |-> <<>>]
  /\ nCalls = [t \in Callers |-> 0]
  /\ lutIn = NoIndex
  /\ lutOut = -1
  /\ execResult = "none"
  /\ execEnv = NoEnv
  /\ warned = FALSE
  /\ potraceKwl = NoPotraceKwl

Init ==
  /\ Constructed
  /\ NoCalls
  /\ m_procChain = <<>>
  /\ m_imgLayers = <<>>
  /\ m_aoiViewRect = NanRect
  /\ m_aoiGroundRect = NanRect
  /\ m_geom = [valid |-> FALSE, imageSize |-> <<0, 0>>]

(* ----------------------- the processing chain -------------------------- *)

Stage(type, inputs, equation, entries, sigma, filter) ==
  [type |-> type, inputs |-> inputs, equation |-> equation,
   entries |-> entries, sigma |-> sigma, filter |-> filter]

Entry(in, out) == [in |-> in, out |-> out]

\* values a keyword takes in the keyword lists handed to initialize
Values(k) ==
  CASE k = ALGORITHM_KW      -> {"ndwi", "awei", "kmeans"}
    [] k = COLOR_CODING_KW   -> {"60 120 0", "300 120 0", "1 2"}
    [] k = SENSOR_ID_KW      -> {"ls8", "ls7"}
    [] k = DO_EDGE_DETECT_KW -> {"true", "false"}
    [] k = SMOOTHING_KW      -> {"0", "0.25"}
    [] k = THRESHOLD_KW      -> {"X", "0.5", "1.5", "-0.25"}
    [] k = TOLERANCE_KW      -> {"0", "0.25", "-0.25"}
    [] k = OUTPUT_FILE_KW    -> {"shore.json"}

\* thresholds in [0,1] for the lookup-table specification: both ends,
\* FLT_EPSILON or a tolerance away from them, the default one and others
LutThresholds ==
  {"0", "0.00000012", "0.01", "0.25", "0.5", "0.55", "0.99", "0.999999995",
   "1"}

\* tolerances for the lookup-table specification: none, those below the
\* eighth decimal, those around FLT_EPSILON / 2 and FLT_EPSILON, the
\* default one and a wide one
ToleranceTexts ==
  <<"0", "0.000000001", "0.000000004", "0.000000005", "0.000000006",
    "0.00000001", "0.00000006", "0.00000007", "0.00000012", "0.01", "0.25",
    "0.0000002">>

LutTolerances == { ToleranceTexts[i] : i \in 1..MaxTol }

\* lines 254-261: the numbers the texts thresholdValueLo1, thresholdValueLo2,
\* thresholdValueHi1 and thresholdValueHi2 denote, in this order
ThresholdValues(threshold, tolerance) ==
  Value({Value({
    <<ToString(lo), ToString(DPlus(lo, DEL)),
      ToString(hi), ToString(DPlus(hi, DEL))>> :
    lo \in {DMinus(t, o)}, hi \in {DPlus(t, o)}}) :
    t \in {Double(threshold)}, o \in {Double(tolerance)}})

\* the thresholds and tolerances a member can hold: the constructor's and
\* those of the keyword lists
StoredThresholds ==
  {55 * (One \div 100)}
    \cup { ToDouble(s) : s \in (Values(THRESHOLD_KW) \ {"X"}) \cup LutThresholds }

StoredTolerances ==
  {One \div 100} \cup { ToDouble(s) : s \in Values(TOLERANCE_KW) \cup LutTolerances }

\* ThresholdValues of the thresholds and tolerances a member can hold, as
\* pairs <<<<threshold, tolerance>>, values>>
StoredThresholdValues ==
  { <<p, ThresholdValues(p[1], p[2])>> : p \in StoredThresholds \X StoredTolerances }

\* ThresholdValues(threshold, tolerance), read from StoredThresholdValues
\* where it is held
Printed(threshold, tolerance) ==
  IF <<threshold, tolerance>> \in StoredThresholds \X StoredTolerances
  THEN (CHOOSE e \in StoredThresholdValues : e[1] = <<threshold, tolerance>>)[2]
  ELSE ThresholdValues(threshold, tolerance)

\* the entries of remapper_kwl, entry0 first; an "in" value is the number
\* its printed text reads as
LutEntries_NoEpsilon(threshold, tolerance, landValue, marginalValue, waterValue) ==
  LET lo1 == Printed(threshold, tolerance)[1]
      hi1 == Printed(threshold, tolerance)[3]
  IN  IF tolerance = 0
      THEN << Entry(Dec(0), landValue), Entry(lo1, landValue),
              Entry(lo1, waterValue), Entry(Dec(One), waterValue) >>
      ELSE << Entry(Dec(0), landValue), Entry(lo1, landValue),
              Entry(lo1, marginalValue), Entry(hi1, marginalValue),
              Entry(hi1, waterValue), Entry(Dec(One), waterValue) >>

LutEntries_AlwaysMarginal(threshold, tolerance, landValue, marginalValue, waterValue) ==
  LET lo1 == Printed(threshold, tolerance)[1]
      lo2 == Printed(threshold, tolerance)[2]
      hi1 == Printed(threshold, tolerance)[3]
      hi2 == Printed(threshold, tolerance)[4]
  IN  << Entry(Dec(0), landValue), Entry(lo1, landValue),
         Entry(lo2, marginalValue), Entry(hi1, marginalValue),
         Entry(hi2, waterValue), Entry(Dec(One), waterValue) >>

LutEntries(threshold, tolerance, landValue, marginalValue, waterValue) ==
  LET thresholdValueLo1 == Printed(threshold, tolerance)[1]
      thresholdValueLo2 == Printed(threshold, tolerance)[2]
      thresholdValueHi1 == Printed(threshold, tolerance)[3]
      thresholdValueHi2 == Printed(threshold, tolerance)[4]
  IN  IF tolerance = 0
      THEN << Entry(Dec(0), landValue), Entry(thresholdValueLo1, landValue),
              Entry(thresholdValueLo2, waterValue), Entry(Dec(One), waterValue) >>
      ELSE << Entry(Dec(0), landValue), Entry(thresholdValueLo1, landValue),
              Entry(thresholdValueLo2, marginalValue),
              Entry(thresholdValueHi1, marginalValue),
              Entry(thresholdValueHi2, waterValue), Entry(Dec(One), waterValue) >>

\* initLandsat8: the number of inputs the algorithm requires
ReqdNumInputs(algorithm) ==
  CASE algorithm = NDWI -> 2
    [] algorithm = AWEI -> 4
    [] OTHER            -> 0

EquationSpec(algorithm) ==
  CASE algorithm = NDWI -> "in[0]/(in[0]+in[1])"
    [] algorithm = AWEI -> "4*(in[0]+in[1]) - 0.25*in[2] - 2.75*in[3]"
    [] OTHER            -> ""

\* initLandsat8: the equation combiner over the first reqdNumInputs layers
IndexStages(algorithm, imgLayers) ==
  << Stage("ossimEquationCombiner",
           SubSeq(imgLayers, 1, ReqdNumInputs(algorithm)),
           EquationSpec(algorithm), <<>>, 0, "") >>

\* initProcessingChain: the threshold filter
ThresholdStages(skipThreshold, entries) ==
  IF ~skipThreshold
  THEN << Stage("ossimBandLutFilter", <<>>, "", entries, 0, "") >>
  ELSE <<>>

\* initProcessingChain: the gaussian filter
SmoothingStages_AtZero(smoothing) ==
  IF smoothing >= 0
  THEN << Stage("ossimImageGaussianFilter", <<>>, "", <<>>, smoothing, "") >>
  ELSE <<>>

SmoothingStages(smoothing) ==
  IF smoothing > 0
  THEN << Stage("ossimImageGaussianFilter", <<>>, "", <<>>, smoothing, "") >>
  ELSE <<>>

\* initProcessingChain: the edge detector
EdgeStages(doEdgeDetect) ==
  IF doEdgeDetect
  THEN << Stage("ossimEdgeFilter", <<>>, "", <<>>, 0, "roberts") >>
  ELSE <<>>

\* why initProcessingChain throws for these members, "" when it does not
ChainError(sensor, algorithm, imgLayers, viewRect, groundRect) ==
  IF HasNans(groundRect) \/ HasNans(viewRect) THEN "NaNs in AOI"
  ELSE IF sensor # "ls8" THEN "Sensor not supported"
  ELSE IF Len(imgLayers) < ReqdNumInputs(algorithm) THEN "Too few input images"
  ELSE ""

\* the stages initProcessingChain adds when it does not throw
ChainStages_EdgeBeforeSmoothing(algorithm, imgLayers, skipThreshold, doEdgeDetect, smoothing, entries) ==
  IndexStages(algorithm, imgLayers)
    \o ThresholdStages(skipThreshold, entries)
    \o EdgeStages(doEdgeDetect)
    \o SmoothingStages(smoothing)

ChainStages(algorithm, imgLayers, skipThreshold, doEdgeDetect, smoothing, entries) ==
  IndexStages(algorithm, imgLayers)
    \o ThresholdStages(skipThreshold, entries)
    \o SmoothingStages(smoothing)
    \o EdgeStages(doEdgeDetect)

(* --------------------------- initialize -------------------------------- *)

\* keywords that are set together in one keyword list
KeyGroups ==
  {{ALGORITHM_KW, COLOR_CODING_KW}, {DO_EDGE_DETECT_KW, OUTPUT_FILE_KW},
   {THRESHOLD_KW, TOLERANCE_KW}, {SMOOTHING_KW, SENSOR_ID_KW}}

\* the keyword lists handed to initialize; "" is an absent keyword
Kwls ==
  UNION { { [k \in Keys |-> IF k \in g THEN f[k] ELSE ""] :
              f \in { h \in [g -> UNION {Values(k) : k \in g} \cup {""}] :
                        \A k \in g : h[k] \in Values(k) \cup {""} } } :
          g \in KeyGroups }

\* the options the argument parser puts into m_kwl: --edge or none (the
\* other options reach initialize through the keywords m_kwl already holds)
ApOptions ==
  { k \in Kwls : /\ k[DO_EDGE_DETECT_KW] # "false"
                 /\ \A key \in Keys \ {DO_EDGE_DETECT_KW} : k[key] = "" }
OutputArgs == {"", "shore.json"}

\* ossimKeywordlist::addPair / add with overwrite, for every keyword of opts
AddPairs(list, opts) == [k \in Keys |-> IF opts[k] # "" THEN opts[k] ELSE list[k]]

\* ossimKeywordlist::add(key, value)
Add(list, key, value) == [k \in Keys |-> IF k = key THEN value ELSE list[k]]

\* what the last execute did is forgotten when a new run is set up
NewRun ==
  /\ execResult' = "none"
  /\ execEnv' = NoEnv
  /\ warned' = FALSE
  /\ potraceKwl' = NoPotraceKwl

\* initialize(const ossimKeywordlist&) from line 155 on. k1 is m_kwl after
\* the copy of lines 148-153; byMember says the argument is m_kwl itself,
\* arg is the argument.
InitializeBody(k1, byMember, arg) ==
  LET algorithmValue == k1[ALGORITHM_KW]
      badAlgorithm == algorithmValue # "" /\ algorithmValue \notin {"ndwi", "awei"}
      algorithm1 == IF algorithmValue = "ndwi" THEN NDWI
                    ELSE IF algorithmValue = "awei" THEN AWEI
                    ELSE m_algorithm
      colorValue == k1[COLOR_CODING_KW]
      values == Split(colorValue)
      badColor == colorValue # "" /\ Len(values) # 3
      setColor == colorValue # "" /\ Len(values) = 3
      sensorValue == k1[SENSOR_ID_KW]
      edgeValue == k1[DO_EDGE_DETECT_KW]
      doEdgeDetect1 == IF edgeValue # "" THEN ToBool(edgeValue) ELSE m_doEdgeDetect
      smoothingValue == k1[SMOOTHING_KW]
      thresholdValue == k1[THRESHOLD_KW]
      toleranceValue == k1[TOLERANCE_KW]
      vectorFilename0 == k1[OUTPUT_FILE_KW]
      isDummy == vectorFilename0 = DUMMY_OUTPUT_FILENAME
      vectorFilename1 == IF isDummy THEN "" ELSE vectorFilename0
      productFilename1 ==
        IF isDummy THEN AppendTimestamp(TEMP_RASTER_PRODUCT_FILENAME)
        ELSE SetExtensionTif(vectorFilename0)
      kwl2 == IF doEdgeDetect1 THEN k1 ELSE Add(k1, OUTPUT_FILE_KW, productFilename1)
  IN
  /\ nInit' = nInit + 1
  /\ IF badAlgorithm
     THEN \* throw at line 166
          /\ initResult' = "threw"
          /\ m_kwl' = k1
          /\ UNCHANGED <<cfgVars, fileVars, chainVars, baseKwl, m_aoiViewRect,
                         m_aoiGroundRect>>
     ELSE IF badColor
     THEN \* throw at line 184
          /\ initResult' = "threw"
          /\ m_kwl' = k1
          /\ m_algorithm' = algorithm1
          /\ UNCHANGED <<m_waterValue, m_marginalValue, m_landValue, m_sensor,
                         m_threshold, m_tolerance, m_skipThreshold, m_smoothing,
                         m_doEdgeDetect, fileVars, chainVars, baseKwl,
                         m_aoiViewRect, m_aoiGroundRect>>
     ELSE /\ initResult' = "ok"
          /\ m_algorithm' = algorithm1
          /\ m_waterValue' = IF setColor THEN ToUInt8(values[1]) ELSE m_waterValue
          /\ m_marginalValue' = IF setColor THEN ToUInt8(values[2]) ELSE m_marginalValue
          /\ m_landValue' = IF setColor THEN ToUInt8(values[3]) ELSE m_landValue
          /\ m_sensor' = IF sensorValue # "" THEN sensorValue ELSE m_sensor
          /\ m_doEdgeDetect' = doEdgeDetect1
          /\ m_smoothing' = IF smoothingValue # "" THEN ToDouble(smoothingValue)
                            ELSE m_smoothing
          /\ m_skipThreshold' = IF thresholdValue = "X" THEN TRUE ELSE m_skipThreshold
          /\ m_threshold' = IF thresholdValue # "" /\ thresholdValue # "X"
                            THEN ToDouble(thresholdValue) ELSE m_threshold
          /\ m_tolerance' = IF toleranceValue # "" THEN ToDouble(toleranceValue)
                            ELSE m_tolerance
          /\ m_vectorFilename' = IF doEdgeDetect1 THEN m_vectorFilename
                                 ELSE vectorFilename1
          /\ m_productFilename' = IF doEdgeDetect1 THEN m_productFilename
                                  ELSE productFilename1
          /\ m_kwl' = kwl2
          \* line 230: the argument goes to the base class, which starts
          \* over with a new chain, no layers and no area of interest
          /\ baseKwl' = IF byMember THEN kwl2 ELSE arg
          /\ m_procChain' = <<>>
          /\ chainResult' = "none"
          /\ m_imgLayers' = <<>>
          /\ m_aoiViewRect' = NanRect
          /\ m_aoiGroundRect' = NanRect
  /\ NewRun
  /\ UNCHANGED <<m_geom, chipVars, lutVars>>

\* initialize(const ossimKeywordlist& kwl) with a keyword list of the caller
InitializeKwl(kwl) ==
  /\ nInit < MaxInits
  /\ InitializeBody(kwl, FALSE, kwl)

\* initialize(ossimArgumentParser& ap): the options go into m_kwl, then the
\* placeholder output name; processRemainingArgs stores the output file
\* argument when there is one and calls initialize(m_kwl)
InitializeAp(baseOk, opts, outArg) ==
  /\ nInit < MaxInits
  /\ IF ~baseOk
     THEN /\ nInit' = nInit + 1
          /\ initResult' = "false"
          /\ NewRun
          /\ UNCHANGED <<cfgVars, fileVars, chainVars, aoiVars, m_kwl, baseKwl,
                         chipVars, lutVars>>
     ELSE LET k0 == Add(AddPairs(m_kwl, opts), OUTPUT_FILE_KW, DUMMY_OUTPUT_FILENAME)
              k1 == IF outArg # "" THEN Add(k0, OUTPUT_FILE_KW, outArg) ELSE k0
          IN  InitializeBody(k1, TRUE, k1)

(* ------------------------ initProcessingChain -------------------------- *)

AoiRects == {NanRect, <<0, 0, 3, 3>>}

\* The base class loads the image layers and the area of interest, then
\* calls initProcessingChain, which adds the stages or throws.
InitProcessingChain(n, aoi) ==
  /\ initResult = "ok"
  /\ chainResult = "none"
  /\ m_imgLayers' = [i \in 1..n |-> i]
  /\ m_aoiViewRect' = aoi
  /\ m_aoiGroundRect' = LocalToWorld(aoi)
  /\ IF ChainError(m_sensor, m_algorithm, m_imgLayers', aoi, LocalToWorld(aoi)) # ""
     THEN /\ chainResult' = "threw"
          /\ UNCHANGED m_procChain
     ELSE /\ chainResult' = "ok"
          /\ m_procChain' =
               m_procChain \o
               ChainStages(m_algorithm, m_imgLayers', m_skipThreshold, m_doEdgeDetect,
                           m_smoothing,
                           LutEntries(m_threshold, m_tolerance, m_landValue,
                                      m_marginalValue, m_waterValue))
  /\ UNCHANGED <<cfgVars, fileVars, m_geom, initVars, chipVars, lutVars, execVars>>

(* ------------------------------ getChip -------------------------------- *)

\* ossimImageChain::getTile: the tile of the chain for the rectangle
GetTile(chain, rect) == [rect |-> rect]

\* getChip takes no lock and its accesses to the members are plain loads
\* and stores: a rectangle is copied and read one integer at a time, and
\* another caller may run between any two of them. A store of a caller
\* waits in the caller's store buffer sb[t] and reaches memory later, the
\* oldest store first; until then only the caller itself reads it. What a
\* caller puts into its own buffer no other caller sees, so the stores of
\* one statement enter the buffer in one step; they reach memory, and the
\* integers are loaded, one at a time. A store is <<member, index, value>>.
Store(member, i, value) == <<member, i, value>>

\* the value caller t loads from integer i of m_aoiViewRect: that of its
\* youngest store to it still in its buffer, else the one in memory
Load(t, i) ==
  LET own == { k \in 1..Len(sb[t]) : sb[t][k][1] = "view" /\ sb[t][k][2] = i }
  IN  IF own # {}
      THEN sb[t][CHOOSE k \in own : \A l \in own : l <= k][3]
      ELSE m_aoiViewRect[i]

\* A statement at pc[t] that loads `last` integers goes on to nextPc after
\* the last.
Advance(t, last, nextPc) ==
  IF part[t] < last
  THEN /\ part' = [part EXCEPT ![t] = @ + 1]
       /\ UNCHANGED pc
  ELSE /\ part' = [part EXCEPT ![t] = 1]
       /\ pc' = [pc EXCEPT ![t] = nextPc]

\* the statement a read of m_aoiViewRect belongs to
AfterRead(p) ==
  CASE p = "L360r" -> "L360"
    [] p = "L361r" -> "L361"
    [] p = "L363r" -> "L363"

\* lines 349-357: entry, and the return of a null tile without geometry
GetChipCall(t, r) ==
  /\ pc[t] = "idle"
  /\ nCalls[t] < MaxCalls
  /\ nCalls' = [nCalls EXCEPT ![t] = @ + 1]
  /\ bounding_irect' = [bounding_irect EXCEPT ![t] = r]
  /\ chipResult' = [chipResult EXCEPT ![t] = NoTile]
  /\ pc' = [pc EXCEPT ![t] = IF m_geom.valid THEN "L359" ELSE "done"]
  /\ UNCHANGED <<cfgVars, fileVars, chainVars, aoiVars, initVars, part, view,
                 sb, lutVars, execVars>>

\* line 359: m_aoiViewRect = bounding_irect, the stores of its integers
GetChipL359(t) ==
  /\ pc[t] = "L359"
  /\ sb' = [sb EXCEPT ![t] = @ \o [i \in 1..4 |-> Store("view", i, bounding_irect[t][i])]]
  /\ pc' = [pc EXCEPT ![t] = "L360r"]
  /\ UNCHANGED <<cfgVars, fileVars, chainVars, aoiVars, initVars, part, view,
                 bounding_irect, chipResult, nCalls, lutVars, execVars>>

\* lines 360, 361, 363: the load of one integer of m_aoiViewRect
GetChipRead(t) ==
  /\ pc[t] \in {"L360r", "L361r", "L363r"}
  /\ view' = [view EXCEPT ![t][part[t]] = Load(t, part[t])]
  /\ Advance(t, 4, AfterRead(pc[t]))
  /\ UNCHANGED <<cfgVars, fileVars, chainVars, aoiVars, initVars, bounding_irect,
                 chipResult, sb, nCalls, lutVars, execVars>>

\* line 360: m_geom->setImageSize(m_aoiViewRect.size()), the stores of the
\* integers of the size
GetChipL360(t) ==
  /\ pc[t] = "L360"
  /\ sb' = [sb EXCEPT ![t] = @ \o [i \in 1..2 |-> Store("size", i, RectSize(view[t])[i])]]
  /\ pc' = [pc EXCEPT ![t] = "L361r"]
  /\ view' = [view EXCEPT ![t] = NanRect]
  /\ UNCHANGED <<cfgVars, fileVars, chainVars, aoiVars, initVars, part,
                 bounding_irect, chipResult, nCalls, lutVars, execVars>>

\* line 361: m_geom->localToWorld(m_aoiViewRect, m_aoiGroundRect), the
\* stores of the integers of the ground rectangle
GetChipL361(t) ==
  /\ pc[t] = "L361"
  /\ sb' = [sb EXCEPT ![t] = @ \o [i \in 1..4 |-> Store("ground", i, LocalToWorld(view[t])[i])]]
  /\ pc' = [pc EXCEPT ![t] = "L363r"]
  /\ view' = [view EXCEPT ![t] = NanRect]
  /\ UNCHANGED <<cfgVars, fileVars, chainVars, aoiVars, initVars, part,
                 bounding_irect, chipResult, nCalls, lutVars, execVars>>

\* line 363: return m_procChain->getTile(m_aoiViewRect, 0)
GetChipL363(t) ==
  /\ pc[t] = "L363"
  /\ chipResult' = [chipResult EXCEPT ![t] = GetTile(m_procChain, view[t])]
  /\ pc' = [pc EXCEPT ![t] = "done"]
  /\ view' = [view EXCEPT ![t] = NanRect]
  /\ UNCHANGED <<cfgVars, fileVars, chainVars, aoiVars, initVars, part,
                 bounding_irect, sb, nCalls, lutVars, execVars>>

\* the oldest store in the buffer of caller t reaches memory
Drain(t) ==
  /\ sb[t] # <<>>
  /\ LET member == Head(sb[t])[1]
         i == Head(sb[t])[2]
         value == Head(sb[t])[3]
     IN  /\ m_aoiViewRect' = IF member = "view"
                             THEN [m_aoiViewRect EXCEPT ![i] = value]
                             ELSE m_aoiViewRect
         /\ m_geom' = IF member = "size"
                      THEN [m_geom EXCEPT !.imageSize[i] = value]
                      ELSE m_geom
         /\ m_aoiGroundRect' = IF member = "ground"
                               THEN [m_aoiGroundRect EXCEPT ![i] = value]
                               ELSE m_aoiGroundRect
  /\ sb' = [sb EXCEPT ![t] = Tail(@)]
  /\ UNCHANGED <<cfgVars, fileVars, chainVars, initVars, pc, part, view,
                 bounding_irect, chipResult, nCalls, lutVars, execVars>>

\* the caller has its tile and may call again, once its stores have
\* reached memory
GetChipReturn(t) ==
  /\ pc[t] = "done"
  /\ sb[t] = <<>>
  /\ pc' = [pc EXCEPT ![t] = "idle"]
  /\ UNCHANGED <<cfgVars, fileVars, chainVars, aoiVars, initVars, part, view,
                 bounding_irect, chipResult, sb, nCalls, lutVars, execVars>>

(* ------------------------ the lookup table ----------------------------- *)

\* ossimBandLutFilter::loadState: the "in" values of the table
LutKeys(entries) == { entries[i].in : i \in 1..Len(entries) }

\* the "out" values the table may hold for an "in" value; entries with the
\* same "in" value leave either one
LutOuts(entries, x) == { entries[i].out : i \in { j \in 1..Len(entries) : entries[j].in = x } }

DecMax(S) == CHOOSE x \in S : \A y \in S : DecLeq(y, x)
DecMin(S) == CHOOSE x \in S : \A y \in S : DecLeq(x, y)

\* <<q, r>> with a * c = q * d + r and 0 <= r < d, for decimal numbers
\* 0 <= a < d <= 1 and an integer c >= 0, computed without a product
RECURSIVE MulDiv(_, _, _)
MulDiv(a, c, d) ==
  IF c = 0 THEN <<0, Dec(0)>>
  ELSE Value({Value({
         IF c % 2 = 0 THEN t
         ELSE IF DecLess(DecPlus(t[2], a), d)
         THEN <<t[1], DecPlus(t[2], a)>>
         ELSE <<t[1] + 1, DecMinus(DecPlus(t[2], a), d)>> :
         t \in {IF DecLess(DecPlus(h[2], h[2]), d)
                THEN <<2 * h[1], DecPlus(h[2], h[2])>>
                ELSE <<2 * h[1] + 1, DecMinus(DecPlus(h[2], h[2]), d)>>}}) :
         h \in {MulDiv(a, c \div 2, d)}})

\* the integer part (floor) of a * c / d, for 0 <= a < d <= 1
FloorMulDiv(a, c, d) ==
  IF c >= 0 THEN MulDiv(a, c, d)[1]
  ELSE Value({0 - m[1] - (IF m[2] # Dec(0) THEN 1 ELSE 0) :
              m \in {MulDiv(a, 0 - c, d)}})

\* ossimBandLutFilter in "interpolated" mode: the outputs possible for the
\* index value v. An "in" value maps to its "out" value; between two "in"
\* values the output is interpolated linearly; outside them it is that of
\* the nearest one.
RemapOutputs(entries, v) ==
  LET keys == LutKeys(entries)
      below == { k \in keys : DecLess(k, v) }
      above == { k \in keys : DecLess(v, k) }
  IN  IF v \in keys THEN LutOuts(entries, v)
      ELSE IF below = {} THEN LutOuts(entries, DecMin(keys))
      ELSE IF above = {} THEN LutOuts(entries, DecMax(keys))
      ELSE LET x1 == DecMax(below)
               x2 == DecMin(above)
           IN  { y1 + FloorMulDiv(DecMinus(v, x1), y2 - y1, DecMinus(x2, x1)) :
                   y1 \in LutOuts(entries, x1), y2 \in LutOuts(entries, x2) }

\* the lookup-table stages of a chain
LutStages(chain) == { i \in 1..Len(chain) : chain[i].type = "ossimBandLutFilter" }

\* the threshold filter of the chain remaps one normalized index value
Remap(v) ==
  /\ chainResult = "ok"
  /\ lutIn = NoIndex
  /\ LutStages(m_procChain) # {}
  /\ \E i \in LutStages(m_procChain) :
       \E out \in RemapOutputs(m_procChain[i].entries, v) :
         /\ lutIn' = v
         /\ lutOut' = out
  /\ UNCHANGED <<cfgVars, fileVars, chainVars, aoiVars, initVars, chipVars, execVars>>

(* ------------------------------ execute -------------------------------- *)

\* execute(): base is what ossimChipProcUtil::execute does ("true": the
\* raster product is written to m_productFilename, "false" or "threw"),
\* available whether the registry makes a potrace utility, potraceStatus
\* what potrace->execute() returns (TRUE: the vector product is written).
Execute(base, available, potraceStatus) ==
  /\ chainResult = "ok"
  /\ execResult = "none"
  /\ LET status == base
     IN
     IF base = "threw"
     THEN /\ execResult' = "threw"
          /\ execEnv' = [base |-> base, potrace |-> "none", vector |-> "none"]
          /\ UNCHANGED <<warned, potraceKwl>>
     ELSE IF m_doEdgeDetect
     THEN /\ execResult' = status
          /\ execEnv' = [base |-> base, potrace |-> "none", vector |-> "none"]
          /\ UNCHANGED <<warned, potraceKwl>>
     ELSE IF ~available
     THEN \* lines 377-383
          /\ warned' = TRUE
          /\ execResult' = "false"
          /\ execEnv' = [base |-> base, potrace |-> "absent", vector |-> "none"]
          /\ UNCHANGED potraceKwl
     ELSE \* lines 386-397: the status of line 394 is a new variable of the
          \* inner block; line 397 returns the status of line 370
          /\ potraceKwl' = [image_file |-> m_productFilename,
                            output_file |-> m_vectorFilename, mode |-> "polygon"]
          /\ execEnv' = [base |-> base, potrace |-> "present",
                         vector |-> IF potraceStatus THEN "true" ELSE "false"]
          /\ execResult' = status
          /\ UNCHANGED warned
  /\ UNCHANGED <<cfgVars, fileVars, chainVars, aoiVars, initVars, chipVars, lutVars>>

(* --------------------------- specifications ---------------------------- *)

Next ==
  \/ \E kwl \in Kwls : InitializeKwl(kwl)
  \/ \E baseOk \in BOOLEAN, opts \in ApOptions, outArg \in OutputArgs :
       InitializeAp(baseOk, opts, outArg)
  \/ \E n \in 0..MaxLayers, aoi \in AoiRects : InitProcessingChain(n, aoi)
  \/ \E base \in {"true", "false", "threw"}, available \in BOOLEAN,
        potraceStatus \in BOOLEAN : Execute(base, available, potraceStatus)

\* configuration load, chain construction and execute of one object
Spec == Init /\ [][Next]_vars

\* An initialized object with its chain built, asked for chips by Callers
InitChip ==
  /\ Constructed
  /\ NoCalls
  /\ m_imgLayers = <<1, 2>>
  /\ m_procChain =
       ChainStages(m_algorithm, m_imgLayers, m_skipThreshold, m_doEdgeDetect,
                   m_smoothing,
                   LutEntries(m_threshold, m_tolerance, m_landValue,
                              m_marginalValue, m_waterValue))
  /\ m_aoiViewRect = <<0, 0, 3, 3>>
  /\ m_aoiGroundRect = LocalToWorld(m_aoiViewRect)
  /\ m_geom \in { [valid |-> b, imageSize |-> <<4, 4>>] : b \in BOOLEAN }

NextChip ==
  \E t \in Callers :
    \/ \E r \in Regions : GetChipCall(t, r)
    \/ GetChipL359(t)
    \/ GetChipRead(t)
    \/ GetChipL360(t)
    \/ GetChipL361(t)
    \/ GetChipL363(t)
    \/ Drain(t)
    \/ GetChipReturn(t)

SpecChip == InitChip /\ [][NextChip]_vars

\* color codings "water marginal land": the default one, others with
\* distinct values, and those with two or three equal values
ColorCodings ==
  {"255 128 0", "255 127 0", "120 60 0", "0 60 120", "60 120 0", "120 0 0",
   "120 120 0", "60 0 60", "60 60 60"}

\* keyword lists with thresholding enabled, threshold in [0,1] and
\* tolerance >= 0, and the one without keywords
LutKwls ==
  {EmptyKwl} \cup
  { [k \in Keys |-> CASE k = THRESHOLD_KW    -> th
                      [] k = TOLERANCE_KW    -> tol
                      [] k = COLOR_CODING_KW -> c
                      [] OTHER               -> ""] :
      th \in LutThresholds, tol \in LutTolerances, c \in ColorCodings }

\* the "in" values of the lookup tables of the chain
TableKeys ==
  UNION { LutKeys(m_procChain[i].entries) : i \in LutStages(m_procChain) }

\* distances of an index value from an "in" value or a break point
Offsets == {<<0, 0, 1>>} \cup { Dec(d) : d \in {1, MaxOffset} }

\* index values in [0,1]: the "in" values of the table and the break
\* points threshold - tolerance and threshold + tolerance, values around
\* them, the values half way between two "in" values, and the quarters of
\* [0,1]
IndexValues ==
  LET marks == TableKeys \cup {Dec(m_threshold - m_tolerance),
                               Dec(m_threshold + m_tolerance)}
  IN  { v \in marks
             \cup { DecPlus(k, o) : k \in marks, o \in Offsets }
             \cup { DecMinus(k, o) : k \in marks, o \in Offsets }
             \cup { DecPlus(DecHalf(k), DecHalf(l)) : k \in TableKeys, l \in TableKeys }
             \cup { Dec(One \div 4), Dec(One \div 2), Dec(3 * (One \div 4)) } :
          DecLeq(Dec(0), v) /\ DecLeq(v, Dec(One)) }

NextLut ==
  \/ \E kwl \in LutKwls : nInit = 0 /\ InitializeKwl(kwl)
  \/ InitProcessingChain(2, <<0, 0, 3, 3>>)
  \/ \E v \in IndexValues : Remap(v)

\* one configuration load, the chain construction and the lookup table at
\* work on one index value
SpecLut == Init /\ [][NextLut]_vars

(* ------------------------------ claims --------------------------------- *)

\* C1: every getChip call hands its own region to the processing chain and
\* returns the tile of its own region, whatever other calls run meanwhile.
C1_ChipOwnRegion ==
  \A t \in Callers :
    (pc[t] = "done" /\ m_geom.valid) => chipResult[t].rect = bounding_irect[t]

\* the break points as they stand in the table
PrintedLo1 == Printed(m_threshold, m_tolerance)[1]
PrintedLo2 == Printed(m_threshold, m_tolerance)[2]
PrintedHi1 == Printed(m_threshold, m_tolerance)[3]
PrintedHi2 == Printed(m_threshold, m_tolerance)[4]

\* C2 (as claimed): with thresholding enabled the table maps every v in
\* [0,1] with v <= threshold - tolerance to the land value and every v with
\* v >= threshold + tolerance to the water value, boundary values included.
C2_LandWaterAtBoundaries ==
  lutIn # NoIndex =>
    /\ (DecLeq(lutIn, Dec(m_threshold - m_tolerance)) => lutOut = m_landValue)
    /\ (DecLeq(Dec(m_threshold + m_tolerance), lutIn) => lutOut = m_waterValue)

\* C2 (amended): with lo1, lo2, hi1, hi2 the break points as printed into
\* the table (hi2 is lo2 when the tolerance is 0), the table maps a v in
\* [0,1] with v <= lo1 to the land value, provided lo1 < 1.0 or land =
\* water, and provided the tolerance is 0, or lo1 < hi1, or land =
\* marginal; it maps a v in [0,1] with v >= hi2 to the water value,
\* provided the tolerance is 0, or lo2 < hi2, or marginal = water.
C2_LandBelowWaterAbove ==
  lutIn # NoIndex =>
    /\ ( /\ DecLeq(lutIn, PrintedLo1)
         /\ (DecLess(PrintedLo1, Dec(One)) \/ m_landValue = m_waterValue)
         /\ \/ m_tolerance = 0
            \/ DecLess(PrintedLo1, PrintedHi1)
            \/ m_landValue = m_marginalValue )
       => lutOut = m_landValue
    /\ ( /\ DecLeq(PrintedHi2, lutIn)
         /\ \/ m_tolerance = 0
            \/ DecLess(PrintedLo2, PrintedHi2)
            \/ m_marginalValue = m_waterValue )
       => lutOut = m_waterValue

\* C2 witness: an index value on the highest break point is remapped to
\* water in a table with a marginal band and three distinct codes
C2_Witness ==
  /\ lutIn = PrintedHi2
  /\ m_tolerance > 0
  /\ DecLess(PrintedLo2, PrintedHi2)
  /\ lutOut = m_waterValue
  /\ Cardinality({m_landValue, m_marginalValue, m_waterValue}) = 3
  /\ m_threshold - m_tolerance > 0

\* C3 (as claimed): with tolerance 0 the classifier never emits the
\* marginal value, for any v in [0,1] and any color coding.
C3_NoMarginalAtZeroTolerance ==
  (lutIn # NoIndex /\ m_tolerance = 0) => lutOut # m_marginalValue

\* C3 (amended): with tolerance 0, a break point lo1 below 1.0 and a
\* marginal value that differs from the land and the water value, the
\* classifier never emits the marginal value for a v in [0,1] that is not
\* strictly between the two break points lo1 and lo2 printed into the
\* table.
C3_NoMarginalOutsideSliver ==
  ( /\ lutIn # NoIndex
    /\ m_tolerance = 0
    /\ m_marginalValue \notin {m_landValue, m_waterValue}
    /\ DecLess(PrintedLo1, Dec(One))
    /\ ~(DecLess(PrintedLo1, lutIn) /\ DecLess(lutIn, PrintedLo2)) )
  => lutOut # m_marginalValue

\* C3 witness: tolerance 0, three distinct codes, an index value on the
\* upper break point remapped to water
C3_Witness ==
  /\ lutIn = PrintedLo2
  /\ m_tolerance = 0
  /\ DecLess(PrintedLo1, Dec(One))
  /\ Cardinality({m_landValue, m_marginalValue, m_waterValue}) = 3
  /\ lutOut = m_waterValue

\* C4: no threshold outside [0,1] and no negative tolerance is ever stored
\* in the configuration.
C4_RangeChecked ==
  /\ 0 <= m_threshold /\ m_threshold <= One
  /\ m_tolerance >= 0

\* C5: an initialize call that throws leaves every configuration field, the
\* stored keyword list and the file names as they were.
C5_FailedLoadNotApplied ==
  [][ (nInit' = nInit + 1 /\ initResult' = "threw")
        => UNCHANGED <<cfgVars, fileVars, m_kwl>> ]_vars

\* C6: not in edge mode, raster generated, potrace unavailable: execute
\* does not return the failure result, and a warning is emitted.
C6_DegradedIsSuccess ==
  (execResult # "none" /\ ~m_doEdgeDetect /\ execEnv.base = "true"
     /\ execEnv.potrace = "absent")
  => (execResult = "true" /\ warned)

\* C7: not in edge mode and with potrace available, execute returns success
\* only if potrace->execute() returned success.
C7_VectorFailureReported ==
  (execResult = "true" /\ ~m_doEdgeDetect /\ execEnv.potrace = "present")
  => execEnv.vector = "true"

StageTypes(chain) == { chain[i].type : i \in 1..Len(chain) }

\* C8 (as claimed): in edge mode the chain built holds the edge filter and
\* no lookup-table stage.
C8_EdgeExcludesClassifier ==
  (chainResult = "ok" /\ m_doEdgeDetect) =>
    /\ "ossimEdgeFilter" \in StageTypes(m_procChain)
    /\ "ossimBandLutFilter" \notin StageTypes(m_procChain)

\* C8 (amended): in edge mode the chain built ends with the edge filter and
\* holds the lookup-table stage exactly when thresholding is not skipped.
C8_EdgeAfterClassifier ==
  (chainResult = "ok" /\ m_doEdgeDetect) =>
    /\ m_procChain[Len(m_procChain)].type = "ossimEdgeFilter"
    /\ ("ossimBandLutFilter" \in StageTypes(m_procChain)) <=> ~m_skipThreshold

\* C8 witness: an edge-mode chain with classifier and smoothing
C8_Witness ==
  /\ chainResult = "ok"
  /\ m_doEdgeDetect
  /\ ~m_skipThreshold
  /\ m_smoothing > 0
  /\ Len(m_procChain) = 4

StageRank(type) ==
  CASE type = "ossimEquationCombiner"    -> 1
    [] type = "ossimBandLutFilter"       -> 2
    [] type = "ossimImageGaussianFilter" -> 3
    [] type = "ossimEdgeFilter"          -> 4
    [] OTHER                             -> 0

\* C9: when chain construction succeeds (and no later initialize call has
\* touched the configuration) the chain holds, in this order and nothing
\* else: the index evaluator, once, fed by the first 2 (NDWI) or 4
\* (AWEI) layers; the lookup table iff thresholding is not skipped; the
\* gaussian filter iff smoothing > 0; the edge filter iff edge mode.
C9_ChainOrder ==
  (initResult = "ok" /\ chainResult = "ok") =>
    LET types == StageTypes(m_procChain)
        bands == IF m_algorithm = NDWI THEN 2 ELSE 4
    IN  /\ Len(m_procChain) >= 1
        /\ m_procChain[1].type = "ossimEquationCombiner"
        /\ Len(m_imgLayers) >= bands
        /\ Len(m_procChain[1].inputs) = bands
        /\ \A i \in 1..bands : m_procChain[1].inputs[i] = m_imgLayers[i]
        /\ \A i \in 1..Len(m_procChain) : StageRank(m_procChain[i].type) > 0
        /\ \A i, j \in 1..Len(m_procChain) :
             i < j => StageRank(m_procChain[i].type) < StageRank(m_procChain[j].type)
        /\ ("ossimBandLutFilter" \in types) <=> ~m_skipThreshold
        /\ ("ossimImageGaussianFilter" \in types) <=> (m_smoothing > 0)
        /\ ("ossimEdgeFilter" \in types) <=> m_doEdgeDetect

\* C9 witness: an AWEI chain over five layers without smoothing
C9_Witness ==
  /\ initResult = "ok"
  /\ chainResult = "ok"
  /\ m_algorithm = AWEI
  /\ Len(m_imgLayers) = 5
  /\ m_smoothing = 0
  /\ ~m_skipThreshold
  /\ Len(m_procChain) = 2

\* C10: the output_file keyword handed to the base class is never the
\* placeholder name.
C10_PlaceholderNeverProductPath ==
  baseKwl[OUTPUT_FILE_KW] # DUMMY_OUTPUT_FILENAME

\* C11: after a successful initialize whose keyword list holds a number
\* (not "X") under the threshold keyword, the skip flag is false and the
\* chain built next holds the lookup-table stage, whatever initialize
\* calls were made on the object before.
C11_NumericThresholdEnables ==
  (initResult = "ok" /\ m_kwl[THRESHOLD_KW] \notin {"", "X"}) =>
    /\ ~m_skipThreshold
    /\ chainResult = "ok" => "ossimBandLutFilter" \in StageTypes(m_procChain)

====
